---- MODULE Spec2Model ----
(***************************************************************************)
(* Model of wimms/sql.py (class SQLMetadata): the node allocation and      *)
(* assignment engine over the tables nodes, user_nodes and metadata.       *)
(*                                                                         *)
(* Every SQL statement the code hands to _safe_execute is one atomic step  *)
(* of the calling process; the Python code between two statements is local *)
(* and is folded into the statement that precedes it.  Any number of       *)
(* callers run concurrently against the same tables.                       *)
(***************************************************************************)
EXTENDS Integers, Sequences, FiniteSets, TLC

\* ------------------------------------------------------------ bounds
NProcs == 2

Procs == 1 .. NProcs

\* ------------------------------------------------------------ domains
Services == {"s1", "s2"}

Emails == {"u1", "u2"}

\* The (email, service) pairs the callers ask for.
UserKeys == {<<"u1", "s1">>, <<"u2", "s1">>, <<"u1", "s2">>}

\* (service, node) identities of the rows of the nodes table; node "A" is
\* registered under both services.
NodeKeys == {<<"s1", "A">>, <<"s1", "B">>, <<"s1", "C">>, <<"s2", "A">>}

TosName == "terms-of-service"

MetaNames == {TosName, "x"}

MetaValues == {"v1", "v2"}

Drivers == {"mysql", "pysqlite"}

\* Python's None, where the value is otherwise a string.
None == "None"

\* Python's None, where the value is otherwise a uid (uids start at 1).
NoUid == 0

\* tos_signed as allocate_node stores it.
TosAtCreation == 1

\* tos_signed as set_tos stores it.
TosAfterSetTos == 0

\* The literal get_node compares tos_signed with.
TosNeedsUrl == 1

TosFlags == {0, 1}

VARIABLES
    driver,      \* self._engine.driver
    nodes,       \* table nodes: [NodeKeys -> row]
    user_nodes,  \* table user_nodes: set of rows
    metadata,    \* table metadata: set of rows
    pc,          \* per caller: the statement it is about to execute
    op,          \* per caller: the facade method it is in
    args,        \* per caller: the arguments of the call
    one,         \* per caller: get_node's fetched row, {} for None
    node,        \* per caller: get_best_node's selected node
    result,      \* per caller: what the call returned or raised
    granted,     \* history: the (uid, node) every successful allocate_node returned
    mlog         \* history: the last two statements that wrote the metadata table

db == <<driver, nodes, user_nodes, metadata>>

locals == <<pc, op, args, one, node, result>>

vars == <<driver, nodes, user_nodes, metadata, pc, op, args, one, node, result,
          granted, mlog>>

\* ------------------------------------------------------------ values
NodeRow(av, ld, cap, dn, bk) ==
    [available |-> av, current_load |-> ld, capacity |-> cap,
     downed |-> dn, backoff |-> bk]

NoArgs ==
    [email |-> None, service |-> None, name |-> None, value |-> None, flag |-> 0]

NoResult ==
    [ok |-> TRUE, err |-> "", uid |-> NoUid, node |-> None, tos |-> None,
     value |-> None, rows |-> {}]

Raised(e) == [NoResult EXCEPT !.ok = FALSE, !.err = e]

AlreadyAssigned == "BackendError: Node already assigned"

NoNodeAvailable == "BackendError: unable to get a node"

IntegrityError == "IntegrityError"

\* BackendError(str(exc)), as _safe_execute raises it.
BackendUnavailable == "BackendError: storage failure"

\* The storage-layer exceptions _safe_execute catches.
CaughtErrors == {"OperationalError", "TimeoutError"}

\* What the caller sees when engine.execute raises e: a BackendError for the
\* exceptions of the except clause, the exception itself for any other.
SafeExecuteError(e) ==
    IF e \in CaughtErrors THEN BackendUnavailable ELSE e

\* The errors the facade raises as BackendError.
BackendErrors == {AlreadyAssigned, NoNodeAvailable, BackendUnavailable}

\* ------------------------------------------------------------ storage
\* The unique index on user_nodes (email, service).
UserNodesKeyTaken(un, e, s) ==
    \E r \in un : r.email = e /\ r.service = s

\* The unique index on metadata (service, name).
MetadataKeyTaken(md, s, n) ==
    \E r \in md : r.service = s /\ r.name = n

\* The autoincrement uid of the next inserted user_nodes row.
NextUid(un) == Cardinality(un) + 1

\* _GET: the rows of (email, service).
SelectUserNode(un, e, s) ==
    {r \in un : r.email = e /\ r.service = s}

\* res.fetchone(): {} for None, else one of the rows.
FetchOne(rows) ==
    IF rows = {} THEN {{}} ELSE {{r} : r \in rows}

\* _INSERT: a plain insert; the unique index refuses a second row of the
\* same (email, service).  [ok, table, lastrowid].
ExecInsertUserNode_Replace(un, e, s, n, t) ==
    [ok |-> TRUE,
     table |-> {r \in un : ~(r.email = e /\ r.service = s)} \cup
               {[uid |-> NextUid(un), email |-> e, service |-> s, node |-> n,
                 tos_signed |-> t]},
     lastrowid |-> NextUid(un)]

ExecInsertUserNode(un, e, s, n, t) ==
    IF UserNodesKeyTaken(un, e, s)
    THEN [ok |-> FALSE, table |-> un, lastrowid |-> NoUid]
    ELSE [ok |-> TRUE,
          table |-> un \cup {[uid |-> NextUid(un), email |-> e, service |-> s,
                              node |-> n, tos_signed |-> t]},
          lastrowid |-> NextUid(un)]

\* _INSERT_METADATA: a plain insert under the unique index (service, name).
ExecInsertMetadata_Upsert(md, s, n, v) ==
    [ok |-> TRUE,
     table |-> {r \in md : ~(r.service = s /\ r.name = n)} \cup
               {[service |-> s, name |-> n, value |-> v]}]

ExecInsertMetadata(md, s, n, v) ==
    IF MetadataKeyTaken(md, s, n)
    THEN [ok |-> FALSE, table |-> md]
    ELSE [ok |-> TRUE,
          table |-> md \cup {[service |-> s, name |-> n, value |-> v]}]

\* _UPDATE_METADATA: every row of (service, name) gets the value.
ExecUpdateMetadata(md, s, n, v) ==
    {IF r.service = s /\ r.name = n THEN [r EXCEPT !.value = v] ELSE r : r \in md}

\* get_metadata's query: the rows of the service, of the name when one is given.
SelectMetadata_AnyName(md, s, n) ==
    {r \in md : r.service = s}

SelectMetadata(md, s, n) ==
    {r \in md : r.service = s /\ (n = None \/ r.name = n)}

\* get_metadata(service, name) with a name: the values it can return.
GetMetadataValues(md, s, n) ==
    {IF f = {} THEN None ELSE (CHOOSE r \in f : TRUE).value :
        f \in FetchOne(SelectMetadata(md, s, n))}

\* set_tos_flag's update: the rows of the service, of the email when one is given.
ExecUpdateTosFlag_AllUsers(un, s, value, email) ==
    {IF r.service = s THEN [r EXCEPT !.tos_signed = value] ELSE r : r \in un}

ExecUpdateTosFlag_AnyService(un, s, value, email) ==
    {IF email = None \/ r.email = email
        THEN [r EXCEPT !.tos_signed = value] ELSE r : r \in un}

ExecUpdateTosFlag(un, s, value, email) ==
    {IF r.service = s /\ (email = None \/ r.email = email)
        THEN [r EXCEPT !.tos_signed = value] ELSE r : r \in un}

\* ------------------------------------------------------- node selection
\* get_best_node's where clause, the service apart.
BestNodeWhere_NoCapacity(r) ==
    r.available > 0 /\ r.downed = 0

BestNodeWhere_NoAvailable(r) ==
    r.capacity > r.current_load /\ r.downed = 0

BestNodeWhere(r) ==
    r.available > 0 /\ r.capacity > r.current_load /\ r.downed = 0

\* order_by(current_load / capacity): whether row a sorts no later than row b.
\* MySQL's / on integers is an exact division, SQLite's truncates to an integer.
RatioLE(d, a, b) ==
    IF d = "pysqlite"
    THEN (a.current_load \div a.capacity) <= (b.current_load \div b.capacity)
    ELSE a.current_load * b.capacity <= b.current_load * a.capacity

\* The rows limit(1) can return: the rows of the where clause that sort first.
BestNodes(d, nd, s) ==
    {k \in NodeKeys :
        /\ k[1] = s
        /\ BestNodeWhere(nd[k])
        /\ \A j \in NodeKeys :
              (j[1] = s /\ BestNodeWhere(nd[j])) => RatioLE(d, nd[k], nd[j])}

\* get_best_node's update: available - 1, current_load + 1 where service and node match.
ExecClaim_AnyService(nd, s, n) ==
    [k \in NodeKeys |->
        IF k[2] = n
        THEN [nd[k] EXCEPT !.available = @ - 1, !.current_load = @ + 1]
        ELSE nd[k]]

ExecClaim(nd, s, n) ==
    [k \in NodeKeys |->
        IF k[1] = s /\ k[2] = n
        THEN [nd[k] EXCEPT !.available = @ - 1, !.current_load = @ + 1]
        ELSE nd[k]]

\* ------------------------------------------------------------ initial state
\* Rows the external reporting process can have left in the nodes table.
\* Under s1: A has the lowest load ratio of the nodes that are up (1/3) and
\* one slot left by its available count; B has ratio 1/2, one slot left by
\* its capacity, and is in backoff; C is downed.  The node of s2 is idle.
ReportedNodes ==
    [k \in NodeKeys |->
        CASE k = <<"s1", "A">> -> NodeRow(1, 1, 3, 0, 0)
          [] k = <<"s1", "B">> -> NodeRow(2, 1, 2, 0, 1)
          [] k = <<"s1", "C">> -> NodeRow(1, 0, 2, 1, 0)
          [] k = <<"s2", "A">> -> NodeRow(1, 0, 1, 0, 0)]

\* The history of metadata writes: kept (the last two statements) when on.
Logged(m, e) ==
    IF m.on
    THEN [m EXCEPT !.log = IF Len(@) < 2 THEN Append(@, e) ELSE <<@[2], e>>]
    ELSE m

\* The state after SQLMetadata(sqluri); L is whether the history of metadata
\* writes is kept.
InitWith(L) ==
    /\ driver \in Drivers
    /\ nodes = ReportedNodes
    /\ user_nodes = {}
    /\ metadata = {}
    /\ pc = [p \in Procs |-> "idle"]
    /\ op = [p \in Procs |-> None]
    /\ args = [p \in Procs |-> NoArgs]
    /\ one = [p \in Procs |-> {}]
    /\ node = [p \in Procs |-> None]
    /\ result = [p \in Procs |-> NoResult]
    /\ granted = {}
    /\ mlog = [on |-> L, log |-> <<>>]

\* ------------------------------------------------------------ steps
Enter(p, o, a) ==
    /\ pc[p] = "idle"
    /\ op' = [op EXCEPT ![p] = o]
    /\ args' = [args EXCEPT ![p] = a]

Goto(p, l) ==
    /\ pc' = [pc EXCEPT ![p] = l]
    /\ result' = result

Finish(p, r) ==
    /\ pc' = [pc EXCEPT ![p] = "done"]
    /\ result' = [result EXCEPT ![p] = r]

\* get_node's return value for the fetched row and the ToS URL.
GetNodeReturn_NoTosWhenUnknown(f, tos) ==
    IF f = {}
    THEN NoResult
    ELSE LET r == CHOOSE r \in f : TRUE
         IN  [NoResult EXCEPT !.uid = r.uid, !.node = r.node, !.tos = tos]

GetNodeReturn(f, tos) ==
    IF f = {}
    THEN [NoResult EXCEPT !.tos = tos]
    ELSE LET r == CHOOSE r \in f : TRUE
         IN  [NoResult EXCEPT !.uid = r.uid, !.node = r.node, !.tos = tos]

\* Whether get_node goes on to read the ToS URL.
NeedsTos_WhenCleared(f) ==
    f = {} \/ \E r \in f : r.tos_signed # TosNeedsUrl

NeedsTos(f) ==
    f = {} \/ \E r \in f : r.tos_signed = TosNeedsUrl

\* get_node(email, service): the _GET statement.
get_node(p, e, s) ==
    /\ Enter(p, "get_node", [NoArgs EXCEPT !.email = e, !.service = s])
    /\ \E f \in FetchOne(SelectUserNode(user_nodes, e, s)) :
          /\ one' = [one EXCEPT ![p] = f]
          /\ IF NeedsTos(f)
             THEN Goto(p, "gn_tos")
             ELSE Finish(p, GetNodeReturn(f, None))
    /\ UNCHANGED <<db, node, granted, mlog>>

\* get_node: the get_metadata(service, 'terms-of-service') statement.
get_node_tos(p) ==
    /\ pc[p] = "gn_tos"
    /\ \E t \in GetMetadataValues(metadata, args[p].service, TosName) :
          Finish(p, GetNodeReturn(one[p], t))
    /\ UNCHANGED <<db, op, args, one, node, granted, mlog>>

\* allocate_node(email, service): get_node's _GET statement.
allocate_node(p, e, s) ==
    /\ Enter(p, "allocate_node", [NoArgs EXCEPT !.email = e, !.service = s])
    /\ \E f \in FetchOne(SelectUserNode(user_nodes, e, s)) :
          /\ one' = [one EXCEPT ![p] = f]
          /\ IF NeedsTos(f)
             THEN Goto(p, "an_tos")
             ELSE Finish(p, Raised(AlreadyAssigned))
    /\ UNCHANGED <<db, node, granted, mlog>>

\* allocate_node: get_node's get_metadata statement, then the
\* (uid, node) != (None, None) test.
allocate_node_tos_NoTest(p) ==
    /\ pc[p] = "an_tos"
    /\ \E t \in GetMetadataValues(metadata, args[p].service, TosName) :
          Goto(p, "gbn_select")
    /\ UNCHANGED <<db, op, args, one, node, granted, mlog>>

allocate_node_tos(p) ==
    /\ pc[p] = "an_tos"
    /\ \E t \in GetMetadataValues(metadata, args[p].service, TosName) :
          IF one[p] # {}
          THEN Finish(p, Raised(AlreadyAssigned))
          ELSE Goto(p, "gbn_select")
    /\ UNCHANGED <<db, op, args, one, node, granted, mlog>>

\* get_best_node's select ... order_by ... limit(1).
BestNodeSelect_NoRaise(p, s) ==
    IF BestNodes(driver, nodes, s) = {}
    THEN /\ Finish(p, NoResult)
         /\ node' = node
    ELSE \E k \in BestNodes(driver, nodes, s) :
            /\ node' = [node EXCEPT ![p] = k[2]]
            /\ Goto(p, "gbn_update")

BestNodeSelect(p, s) ==
    IF BestNodes(driver, nodes, s) = {}
    THEN /\ Finish(p, Raised(NoNodeAvailable))
         /\ node' = node
    ELSE \E k \in BestNodes(driver, nodes, s) :
            /\ node' = [node EXCEPT ![p] = k[2]]
            /\ Goto(p, "gbn_update")

\* get_best_node(service) called directly.
get_best_node(p, s) ==
    /\ Enter(p, "get_best_node", [NoArgs EXCEPT !.service = s])
    /\ BestNodeSelect(p, s)
    /\ UNCHANGED <<db, one, granted, mlog>>

\* allocate_node: get_best_node's select.
allocate_node_select(p) ==
    /\ pc[p] = "gbn_select"
    /\ BestNodeSelect(p, args[p].service)
    /\ UNCHANGED <<db, op, args, one, granted, mlog>>

\* get_best_node's update of the selected node's row.
get_best_node_update(p) ==
    /\ pc[p] = "gbn_update"
    /\ nodes' = ExecClaim(nodes, args[p].service, node[p])
    /\ IF op[p] = "get_best_node"
       THEN Finish(p, [NoResult EXCEPT !.node = node[p]])
       ELSE Goto(p, "an_insert")
    /\ UNCHANGED <<driver, user_nodes, metadata, op, args, one, node, granted, mlog>>

\* allocate_node: the _INSERT statement and the return of (lastrowid, node).
allocate_node_insert(p) ==
    /\ pc[p] = "an_insert"
    /\ LET ins == ExecInsertUserNode(user_nodes, args[p].email, args[p].service,
                                     node[p], TosAtCreation)
       IN  /\ user_nodes' = ins.table
           /\ IF ins.ok
              THEN /\ Finish(p, [NoResult EXCEPT !.uid = ins.lastrowid,
                                                 !.node = node[p]])
                   /\ granted' = granted \cup
                         {[email |-> args[p].email, service |-> args[p].service,
                           uid |-> ins.lastrowid, node |-> node[p]]}
              ELSE /\ Finish(p, Raised(SafeExecuteError(IntegrityError)))
                   /\ granted' = granted
    /\ UNCHANGED <<driver, nodes, metadata, op, args, one, node, mlog>>

\* set_metadata(service, name, value): the _INSERT_METADATA statement.
set_metadata(p, s, n, v) ==
    /\ Enter(p, "set_metadata", [NoArgs EXCEPT !.service = s, !.name = n, !.value = v])
    /\ LET ins == ExecInsertMetadata(metadata, s, n, v)
       IN  /\ metadata' = ins.table
           /\ Finish(p, IF ins.ok THEN NoResult
                        ELSE Raised(SafeExecuteError(IntegrityError)))
    /\ mlog' = Logged(mlog, [kind |-> "insert", service |-> s, name |-> n, value |-> v])
    /\ UNCHANGED <<driver, nodes, user_nodes, one, node, granted>>

\* get_metadata(service, name) with a name: the value, or None.
get_metadata(p, s, n) ==
    /\ Enter(p, "get_metadata", [NoArgs EXCEPT !.service = s, !.name = n])
    /\ \E v \in GetMetadataValues(metadata, s, n) :
          Finish(p, [NoResult EXCEPT !.value = v])
    /\ UNCHANGED <<db, one, node, granted, mlog>>

\* get_metadata(service) without a name: every row of the service.
get_metadata_all(p, s) ==
    /\ Enter(p, "get_metadata", [NoArgs EXCEPT !.service = s])
    /\ Finish(p, [NoResult EXCEPT !.rows = SelectMetadata(metadata, s, None)])
    /\ UNCHANGED <<db, one, node, granted, mlog>>

\* update_metadata(service, name, value): the _UPDATE_METADATA statement.
update_metadata(p, s, n, v) ==
    /\ Enter(p, "update_metadata", [NoArgs EXCEPT !.service = s, !.name = n, !.value = v])
    /\ metadata' = ExecUpdateMetadata(metadata, s, n, v)
    /\ Finish(p, NoResult)
    /\ mlog' = Logged(mlog, [kind |-> "update", service |-> s, name |-> n, value |-> v])
    /\ UNCHANGED <<driver, nodes, user_nodes, one, node, granted>>

\* set_tos(service, value): update_metadata(service, 'terms-of-service', value).
set_tos(p, s, v) ==
    /\ Enter(p, "set_tos", [NoArgs EXCEPT !.service = s, !.value = v])
    /\ metadata' = ExecUpdateMetadata(metadata, s, TosName, v)
    /\ Goto(p, "st_flag")
    /\ mlog' = Logged(mlog, [kind |-> "update", service |-> s, name |-> TosName, value |-> v])
    /\ UNCHANGED <<driver, nodes, user_nodes, one, node, granted>>

\* set_tos: set_tos_flag(service, 0).
set_tos_reset(p) ==
    /\ pc[p] = "st_flag"
    /\ user_nodes' = ExecUpdateTosFlag(user_nodes, args[p].service, TosAfterSetTos, None)
    /\ Finish(p, NoResult)
    /\ UNCHANGED <<driver, nodes, metadata, op, args, one, node, granted, mlog>>

\* set_tos_flag(service, value, email=None): email is None for every user.
set_tos_flag(p, s, value, email) ==
    /\ Enter(p, "set_tos_flag", [NoArgs EXCEPT !.service = s, !.flag = value, !.email = email])
    /\ user_nodes' = ExecUpdateTosFlag(user_nodes, s, value, email)
    /\ Finish(p, NoResult)
    /\ UNCHANGED <<driver, nodes, metadata, one, node, granted, mlog>>

\* The call returns or raises to its caller.
Return(p) ==
    /\ pc[p] = "done"
    /\ pc' = [pc EXCEPT ![p] = "idle"]
    /\ op' = [op EXCEPT ![p] = None]
    /\ args' = [args EXCEPT ![p] = NoArgs]
    /\ one' = [one EXCEPT ![p] = {}]
    /\ node' = [node EXCEPT ![p] = None]
    /\ result' = [result EXCEPT ![p] = NoResult]
    /\ UNCHANGED <<db, granted, mlog>>

\* ------------------------------------------------------------ specification
\* The allocation calls of caller p for the (email, service) pairs K and the services S.
AllocStep(p, K, S) ==
    \/ \E k \in K : get_node(p, k[1], k[2])
    \/ get_node_tos(p)
    \/ \E k \in K : allocate_node(p, k[1], k[2])
    \/ allocate_node_tos(p)
    \/ \E s \in S : get_best_node(p, s)
    \/ allocate_node_select(p)
    \/ get_best_node_update(p)
    \/ allocate_node_insert(p)

\* The terms-of-service calls of caller p.
TosStep(p, E, S, V) ==
    \/ \E s \in S, v \in V : set_tos(p, s, v)
    \/ set_tos_reset(p)
    \/ \E s \in S, f \in TosFlags, e \in E \cup {None} : set_tos_flag(p, s, f, e)

\* The metadata calls of caller p for the (service, name) keys M.
MetaStep(p, M, V) ==
    \/ \E m \in M, v \in V : set_metadata(p, m[1], m[2], v)
    \/ \E m \in M : get_metadata(p, m[1], m[2])
    \/ \E m \in M : get_metadata_all(p, m[1])
    \/ \E m \in M, v \in V : update_metadata(p, m[1], m[2], v)

\* Concurrent callers of the allocation engine, for the users of s1.
AllocKeys == {<<"u1", "s1">>, <<"u2", "s1">>}

InitAlloc == InitWith(FALSE)

NextAlloc ==
    \E p \in Procs :
        \/ AllocStep(p, AllocKeys, {"s1"})
        \/ Return(p)

SpecAlloc == InitAlloc /\ [][NextAlloc]_vars

\* Concurrent callers of get_node and allocate_node only: every slot is
\* claimed on behalf of a user.
AssignStep(p, K) ==
    \/ \E k \in K : get_node(p, k[1], k[2])
    \/ get_node_tos(p)
    \/ \E k \in K : allocate_node(p, k[1], k[2])
    \/ allocate_node_tos(p)
    \/ allocate_node_select(p)
    \/ get_best_node_update(p)
    \/ allocate_node_insert(p)

InitAssign == InitWith(FALSE)

NextAssign ==
    \E p \in Procs :
        \/ AssignStep(p, AllocKeys)
        \/ Return(p)

SpecAssign == InitAssign /\ [][NextAssign]_vars

\* One caller at a time, every operation of the facade.
SeqProcs == {1}

SeqMetaKeys == {<<"s1", TosName>>, <<"s1", "x">>, <<"s2", TosName>>}

InitSeq == InitWith(FALSE)

NextSeq ==
    \E p \in SeqProcs :
        \/ AllocStep(p, UserKeys, Services)
        \/ TosStep(p, Emails, Services, MetaValues)
        \/ MetaStep(p, SeqMetaKeys, MetaValues)
        \/ Return(p)

SpecSeq == InitSeq /\ [][NextSeq]_vars

\* Concurrent callers of every operation of the facade: the assignments of the
\* users of s1, the ToS operations of every user and service.
TosKeys == AllocKeys

TosMetaKeys == {<<"s1", TosName>>}

InitTos == InitWith(FALSE)

NextTos ==
    \E p \in Procs :
        \/ AllocStep(p, TosKeys, {"s1"})
        \/ TosStep(p, Emails, Services, MetaValues)
        \/ MetaStep(p, TosMetaKeys, MetaValues)
        \/ Return(p)

SpecTos == InitTos /\ [][NextTos]_vars

\* One caller at a time, the operations that write the metadata table, with
\* the history of its writes.
InitMeta == InitWith(TRUE)

NextMeta ==
    \E p \in SeqProcs :
        \/ MetaStep(p, SeqMetaKeys, MetaValues)
        \/ TosStep(p, {}, Services, MetaValues)
        \/ Return(p)

SpecMeta == InitMeta /\ [][NextMeta]_vars

\* ------------------------------------------------------------ claims
\* C1: under any interleaving of concurrent get_best_node / allocate_node
\* callers, no node's current_load ever exceeds its capacity.
C1_NeverOversubscribed ==
    \A k \in NodeKeys : nodes[k].current_load <= nodes[k].capacity

\* C2: once allocate_node(email, service) has succeeded, an allocate_node for
\* the same pair that starts later finds the row, goes on to no statement
\* but get_node's read of the ToS URL, ends in the already-assigned error and
\* leaves the three tables as they are; a get_node that starts later returns
\* the (uid, node) the successful call returned.
C2_LaterAllocateFails ==
    [][\A p \in Procs :
          LET wasGranted ==
                  \E g \in granted : /\ g.email = args'[p].email
                                     /\ g.service = args'[p].service
              tablesKept ==
                  nodes' = nodes /\ user_nodes' = user_nodes /\ metadata' = metadata
          IN  /\ (pc[p] = "idle" /\ op'[p] = "allocate_node" /\ wasGranted)
                    => /\ one'[p] # {}
                       /\ pc'[p] \in {"an_tos", "done"}
                       /\ pc'[p] = "done" => result'[p] = Raised(AlreadyAssigned)
                       /\ tablesKept
              /\ (pc[p] = "an_tos" /\ pc'[p] # "an_tos" /\ one[p] # {})
                    => /\ pc'[p] = "done"
                       /\ result'[p] = Raised(AlreadyAssigned)
                       /\ tablesKept
              /\ (pc[p] = "idle" /\ op'[p] = "get_node" /\ wasGranted)
                    => /\ one'[p] # {}
                       /\ \A r \in one'[p] : \E g \in granted :
                             /\ g.email = args'[p].email
                             /\ g.service = args'[p].service
                             /\ g.uid = r.uid
                             /\ g.node = r.node
              /\ (op[p] = "get_node" /\ pc[p] # "done" /\ pc'[p] = "done")
                    => \A r \in one'[p] : /\ result'[p].uid = r.uid
                                          /\ result'[p].node = r.node
      ]_vars

\* C2's case: an allocate_node for a pair already granted a node has ended in
\* the already-assigned error.
C2_Witness ==
    \E p \in Procs :
        /\ pc[p] = "done"
        /\ op[p] = "allocate_node"
        /\ result[p] = Raised(AlreadyAssigned)
        /\ \E g \in granted : g.email = args[p].email /\ g.service = args[p].service

\* C3: there is at most one assignment row per (email, service), at most one
\* allocate_node per pair has returned a (uid, node), and an allocate_node
\* that has returned one returned the uid and node of the pair's row.
C3_AtMostOneAssignment ==
    /\ \A r1, r2 \in user_nodes :
          (r1.email = r2.email /\ r1.service = r2.service) => r1 = r2
    /\ \A g1, g2 \in granted :
          (g1.email = g2.email /\ g1.service = g2.service) => g1 = g2
    /\ \A p \in Procs :
          (pc[p] = "done" /\ op[p] = "allocate_node" /\ result[p].ok)
             => \E r \in user_nodes :
                   /\ r.email = args[p].email
                   /\ r.service = args[p].service
                   /\ r.uid = result[p].uid
                   /\ r.node = result[p].node

\* C3's case: two allocate_node calls for the same pair raced to the insert;
\* one returned a (uid, node), the other was refused by the unique index.
C3_Witness ==
    \E p, q \in Procs :
        /\ p # q
        /\ pc[p] = "done" /\ pc[q] = "done"
        /\ op[p] = "allocate_node" /\ op[q] = "allocate_node"
        /\ args[p] = args[q]
        /\ result[p].ok
        /\ result[q] = Raised(IntegrityError)

\* C4: a row of user_nodes is never removed, and no step changes the uid or
\* the node of the row of an (email, service).
C4_AssignmentPermanent ==
    [][\A r \in user_nodes :
          /\ \E r2 \in user_nodes' : r2.email = r.email /\ r2.service = r.service
          /\ \A r2 \in user_nodes' :
                (r2.email = r.email /\ r2.service = r.service)
                   => (r2.uid = r.uid /\ r2.node = r.node)
      ]_vars

\* C4's case: both users are assigned, a ToS operation has rewritten a row's
\* flag since its creation, and the service has a ToS URL.
C4_Witness ==
    /\ Cardinality(user_nodes) = 2
    /\ \E r \in user_nodes : r.tos_signed # TosAtCreation
    /\ metadata # {}

\* C5: the node get_best_node selects is a node of the service asked for
\* that, in the state the select reads, has available > 0,
\* current_load < capacity and downed = 0.
C5_SelectedNodeEligible ==
    [][\A p \in Procs :
          (pc[p] # "gbn_update" /\ pc'[p] = "gbn_update")
             => \E k \in NodeKeys :
                   /\ k[1] = args'[p].service
                   /\ k[2] = node'[p]
                   /\ nodes[k].available > 0
                   /\ nodes[k].current_load < nodes[k].capacity
                   /\ nodes[k].downed = 0
      ]_vars

\* C5's case: get_best_node has selected A under s1 while B, of the same
\* service, is at capacity.
C5_Witness ==
    \E p \in Procs :
        /\ pc[p] = "gbn_update"
        /\ args[p].service = "s1"
        /\ node[p] = "A"
        /\ nodes[<<"s1", "B">>].current_load = nodes[<<"s1", "B">>].capacity

\* C6: when set_tos(service, newUrl) completes, every user of the service
\* whom get_node reported as signed before is one get_node reports as
\* unsigned, and the service's ToS URL is newUrl.
C6_SetTosForcesReacknowledgment ==
    [][\A p \in Procs :
          (pc[p] = "st_flag" /\ pc'[p] = "done")
             => \A r \in user_nodes :
                   (r.service = args[p].service /\ ~NeedsTos({r}))
                      => /\ \E r2 \in user_nodes' : r2.uid = r.uid /\ NeedsTos({r2})
                         /\ \E m \in metadata' :
                               /\ m.service = args[p].service
                               /\ m.name = TosName
                               /\ m.value = args[p].value
      ]_vars

\* C7: get_node for a pair with no row reads nothing but the ToS URL, returns
\* (None, None, tosUrl) with tosUrl the value of the service's
\* 'terms-of-service' row when it reads it (None when there is no such row),
\* and leaves the three tables as they are.
C7_UnassignedGetNode ==
    [][\A p \in Procs :
          LET tablesKept ==
                  nodes' = nodes /\ user_nodes' = user_nodes /\ metadata' = metadata
              tosRows ==
                  {m \in metadata : m.service = args[p].service /\ m.name = TosName}
          IN  /\ (/\ pc[p] = "idle"
                  /\ op'[p] = "get_node"
                  /\ ~\E r \in user_nodes : /\ r.email = args'[p].email
                                            /\ r.service = args'[p].service)
                    => /\ pc'[p] = "gn_tos"
                       /\ one'[p] = {}
                       /\ tablesKept
              /\ (pc[p] = "gn_tos" /\ pc'[p] # "gn_tos" /\ one[p] = {})
                    => /\ pc'[p] = "done"
                       /\ result'[p].ok
                       /\ result'[p].uid = NoUid
                       /\ result'[p].node = None
                       /\ \/ tosRows = {} /\ result'[p].tos = None
                          \/ \E m \in tosRows : result'[p].tos = m.value
                       /\ tablesKept
      ]_vars

\* C7's case: get_node for an unassigned pair has returned a ToS URL.
C7_Witness ==
    \E p \in Procs :
        /\ pc[p] = "done"
        /\ op[p] = "get_node"
        /\ one[p] = {}
        /\ result[p].uid = NoUid
        /\ result[p].tos \in MetaValues

\* C8: the node allocate_node selects has, among the nodes of the service
\* that satisfy the where clause, a minimal current_load / capacity; the call
\* returns that node and records it as the user's node.
C8_SelectsLowestRatio ==
    [][\A p \in Procs :
          /\ (pc[p] # "gbn_update" /\ pc'[p] = "gbn_update" /\ op'[p] = "allocate_node")
                => \A k, j \in NodeKeys :
                      (/\ k[1] = args'[p].service
                       /\ k[2] = node'[p]
                       /\ j[1] = args'[p].service
                       /\ nodes[j].available > 0
                       /\ nodes[j].current_load < nodes[j].capacity
                       /\ nodes[j].downed = 0)
                         => nodes[k].current_load * nodes[j].capacity
                               <= nodes[j].current_load * nodes[k].capacity
          /\ (pc[p] = "an_insert" /\ pc'[p] = "done" /\ result'[p].ok)
                => /\ result'[p].node = node[p]
                   /\ \E r \in user_nodes' :
                         /\ r.email = args[p].email
                         /\ r.service = args[p].service
                         /\ r.node = node[p]
      ]_vars

\* C9: when the last two statements that wrote the metadata table are the
\* insert of set_metadata(s, x, v1) and then the update of
\* update_metadata(s, x, v2), get_metadata(s, x) returns v2.
C9_MetadataRoundTrip ==
    [][\A p \in Procs :
          (/\ pc[p] = "idle"
           /\ op'[p] = "get_metadata"
           /\ args'[p].name # None
           /\ Len(mlog.log) = 2
           /\ mlog.log[1].kind = "insert"
           /\ mlog.log[2].kind = "update"
           /\ mlog.log[1].service = args'[p].service
           /\ mlog.log[2].service = args'[p].service
           /\ mlog.log[1].name = args'[p].name
           /\ mlog.log[2].name = args'[p].name)
             => /\ result'[p].ok
                /\ result'[p].value = mlog.log[2].value
      ]_vars

\* C9's case: set_metadata(s1, x, v1), update_metadata(s1, x, v2), and
\* get_metadata(s1, x) has returned while s1 has a ToS URL as well.
C9_Witness ==
    \E p \in Procs :
        /\ pc[p] = "done"
        /\ op[p] = "get_metadata"
        /\ args[p].service = "s1"
        /\ args[p].name = "x"
        /\ mlog.log = <<[kind |-> "insert", service |-> "s1", name |-> "x", value |-> "v1"],
                        [kind |-> "update", service |-> "s1", name |-> "x", value |-> "v2"]>>
        /\ \E m \in metadata : m.service = "s1" /\ m.name = TosName /\ m.value = "v1"

\* C10: set_metadata(s, x, v) when a row of (s, x) exists raises the storage
\* layer's duplicate-key error and leaves the metadata table as it is; after
\* every step there is at most one row per (service, name).
C10_DuplicateSetFails ==
    [][/\ \A m1, m2 \in metadata' :
             (m1.service = m2.service /\ m1.name = m2.name) => m1 = m2
       /\ \A p \in Procs :
             (/\ pc[p] = "idle"
              /\ op'[p] = "set_metadata"
              /\ \E m \in metadata : /\ m.service = args'[p].service
                                     /\ m.name = args'[p].name)
                => /\ ~result'[p].ok
                   /\ result'[p].err = IntegrityError
                   /\ metadata' = metadata
      ]_vars

\* C10's case: set_metadata of a value other than the stored one has been
\* refused for a key that has a row.
C10_Witness ==
    \E p \in Procs :
        /\ pc[p] = "done"
        /\ op[p] = "set_metadata"
        /\ ~result[p].ok
        /\ \E m \in metadata : /\ m.service = args[p].service
                               /\ m.name = args[p].name
                               /\ m.value # args[p].value

\* C11: every failure a facade operation ends in is one of the errors raised
\* as BackendError; no raw storage-layer error, the unique index's
\* duplicate-key error included, reaches the caller.
C11_FailuresAreBackendErrors ==
    \A p \in Procs :
        (pc[p] = "done" /\ ~result[p].ok) => result[p].err \in BackendErrors

\* C12: when no node of the service has available > 0, current_load < capacity
\* and downed = 0, allocate_node's node selection ends the call in the
\* no-node-available error, and no statement of the call up to there has
\* written a table.
C12_NoNodeAvailableFails ==
    [][\A p \in Procs :
          LET noneEligible ==
                  ~\E k \in NodeKeys :
                      /\ k[1] = args[p].service
                      /\ nodes[k].available > 0
                      /\ nodes[k].current_load < nodes[k].capacity
                      /\ nodes[k].downed = 0
              tablesKept ==
                  nodes' = nodes /\ user_nodes' = user_nodes /\ metadata' = metadata
          IN  /\ (pc[p] = "gbn_select" /\ pc'[p] # "gbn_select" /\ noneEligible)
                    => /\ pc'[p] = "done"
                       /\ result'[p] = Raised(NoNodeAvailable)
                       /\ tablesKept
              /\ (/\ op'[p] = "allocate_node"
                  /\ pc[p] \in {"idle", "an_tos"}
                  /\ pc'[p] # pc[p])
                    => tablesKept
      ]_vars

\* C12's case: allocate_node for an unassigned user has ended in the
\* no-node-available error, the slots of the service being used up.
C12_Witness ==
    \E p \in Procs :
        /\ pc[p] = "done"
        /\ op[p] = "allocate_node"
        /\ result[p] = Raised(NoNodeAvailable)
        /\ ~\E r \in user_nodes : r.email = args[p].email /\ r.service = args[p].service

\* C13: the statements of an allocate_node(email, service) call change the
\* nodes table only in its update, and there only the row of the selected
\* node under that service, by available - 1 and current_load + 1; the
\* insert adds the row of (email, service) and keeps every other row; the
\* metadata table is never written; the node returned is the selected one.
C13_AllocateFrame ==
    [][\A p \in Procs :
          /\ (pc[p] = "gbn_update" /\ pc'[p] = "an_insert")
                => /\ \A k \in NodeKeys :
                         IF k = <<args[p].service, node[p]>>
                         THEN /\ nodes'[k].available = nodes[k].available - 1
                              /\ nodes'[k].current_load = nodes[k].current_load + 1
                              /\ nodes'[k].capacity = nodes[k].capacity
                              /\ nodes'[k].downed = nodes[k].downed
                              /\ nodes'[k].backoff = nodes[k].backoff
                         ELSE nodes'[k] = nodes[k]
                   /\ user_nodes' = user_nodes
                   /\ metadata' = metadata
          /\ (pc[p] = "an_insert" /\ pc'[p] = "done" /\ result'[p].ok)
                => /\ nodes' = nodes
                   /\ metadata' = metadata
                   /\ user_nodes \subseteq user_nodes'
                   /\ \A r \in user_nodes' \ user_nodes :
                         r.email = args[p].email /\ r.service = args[p].service
                   /\ result'[p].node = node[p]
          /\ (/\ op'[p] = "allocate_node"
              /\ pc[p] \in {"idle", "an_tos", "gbn_select"}
              /\ pc'[p] # pc[p])
                => /\ nodes' = nodes
                   /\ user_nodes' = user_nodes
                   /\ metadata' = metadata
      ]_vars

\* C13's case: allocate_node has returned node A under s1, whose row is one
\* slot up, while another user holds a row and node A under s2 is as reported.
C13_Witness ==
    \E p \in Procs :
        /\ pc[p] = "done"
        /\ op[p] = "allocate_node"
        /\ result[p].ok
        /\ result[p].node = "A"
        /\ args[p].service = "s1"
        /\ nodes[<<"s1", "A">>].current_load = ReportedNodes[<<"s1", "A">>].current_load + 1
        /\ nodes[<<"s2", "A">>] = ReportedNodes[<<"s2", "A">>]
        /\ \E r \in user_nodes : r.email # args[p].email

\* C14: get_node(email, service) for a user whose row holds the flag as
\* allocate_node's insert wrote it (no ToS operation has rewritten it) reads
\* the ToS URL and returns the uid and node allocate_node returned, with the
\* value of the service's 'terms-of-service' row (None when there is none).
C14_FreshUserUnsigned ==
    [][\A p \in Procs :
          LET tosRows ==
                  {m \in metadata : m.service = args[p].service /\ m.name = TosName}
          IN  /\ (/\ pc[p] = "idle"
                  /\ op'[p] = "get_node"
                  /\ \E r \in user_nodes : /\ r.email = args'[p].email
                                           /\ r.service = args'[p].service
                                           /\ r.tos_signed = TosAtCreation)
                    => /\ pc'[p] = "gn_tos"
                       /\ one'[p] # {}
              /\ (/\ op[p] = "get_node"
                  /\ pc[p] = "gn_tos"
                  /\ pc'[p] = "done"
                  /\ one[p] # {})
                    => /\ result'[p].ok
                       /\ \E g \in granted : /\ g.email = args[p].email
                                             /\ g.service = args[p].service
                                             /\ g.uid = result'[p].uid
                                             /\ g.node = result'[p].node
                       /\ \/ tosRows = {} /\ result'[p].tos = None
                          \/ \E m \in tosRows : result'[p].tos = m.value
      ]_vars

\* C14's case: get_node has returned the uid, the node and the ToS URL of a
\* user whose flag is as the insert wrote it.
C14_Witness ==
    \E p \in Procs :
        /\ pc[p] = "done"
        /\ op[p] = "get_node"
        /\ result[p].uid # NoUid
        /\ result[p].node # None
        /\ result[p].tos \in MetaValues
        /\ \E r \in user_nodes : /\ r.uid = result[p].uid
                                 /\ r.tos_signed = TosAtCreation

\* C15: a user get_node reports as signed (it does not go on to read the ToS
\* URL) is still reported as signed after every step that is not a
\* statement of a set_tos call on the user's service.
C15_SignedStaysSigned ==
    [][\A r \in user_nodes :
          (/\ ~NeedsTos({r})
           /\ ~\E p \in Procs : /\ op'[p] = "set_tos"
                                /\ pc'[p] # pc[p]
                                /\ args'[p].service = r.service)
             => \A r2 \in user_nodes' : (r2.uid = r.uid) => ~NeedsTos({r2})
      ]_vars

\* C15 amended: a user get_node reports as signed is still reported as signed
\* after every step that is neither a statement of a set_tos call on the
\* user's service nor a set_tos_flag call with value 1 on that service for
\* that user or for every user.
C15_SignedUntilFlagged ==
    [][\A r \in user_nodes :
          (/\ ~NeedsTos({r})
           /\ ~\E p \in Procs : /\ op'[p] = "set_tos"
                                /\ pc'[p] # pc[p]
                                /\ args'[p].service = r.service
           /\ ~\E p \in Procs : /\ op'[p] = "set_tos_flag"
                                /\ pc[p] = "idle"
                                /\ args'[p].service = r.service
                                /\ args'[p].flag = TosNeedsUrl
                                /\ args'[p].email \in {None, r.email})
             => \A r2 \in user_nodes' : (r2.uid = r.uid) => ~NeedsTos({r2})
      ]_vars

\* C15's case: set_tos_flag with value 1 has run for another user of the
\* service of a user who is reported as signed.
C15_Witness ==
    \E p \in Procs :
        /\ pc[p] = "done"
        /\ op[p] = "set_tos_flag"
        /\ args[p].flag = TosNeedsUrl
        /\ args[p].email # None
        /\ \E r \in user_nodes : /\ r.service = args[p].service
                                 /\ r.email # args[p].email
                                 /\ ~NeedsTos({r})

\* C16: set_tos_flag(service, value, email) writes value to tos_signed on the
\* row of (email, service), on every row of the service when email is None,
\* and changes nothing else: no row is added or removed, the rows out of its
\* scope, the other fields of the rows in it, the nodes table and the
\* metadata table are as they were; with no row in scope nothing changes.
C16_SetTosFlagFrame ==
    [][\A p \in Procs :
          (pc[p] = "idle" /\ op'[p] = "set_tos_flag")
             => LET inScope(r) ==
                        /\ r.service = args'[p].service
                        /\ (args'[p].email = None \/ r.email = args'[p].email)
                IN  /\ nodes' = nodes
                    /\ metadata' = metadata
                    /\ Cardinality(user_nodes') = Cardinality(user_nodes)
                    /\ \A r \in user_nodes :
                          IF inScope(r)
                          THEN \E r2 \in user_nodes' :
                                  /\ r2.uid = r.uid
                                  /\ r2.email = r.email
                                  /\ r2.service = r.service
                                  /\ r2.node = r.node
                                  /\ r2.tos_signed = args'[p].flag
                          ELSE r \in user_nodes'
                    /\ (~\E r \in user_nodes : inScope(r)) => user_nodes' = user_nodes
                    /\ pc'[p] = "done"
                    /\ result'[p].ok
      ]_vars

\* C16's case: a set_tos_flag for every user of a service has rewritten the
\* flag of its two rows and left the row of the other service as it was.
C16_Witness ==
    \E p \in Procs :
        /\ pc[p] = "done"
        /\ op[p] = "set_tos_flag"
        /\ args[p].email = None
        /\ Cardinality({r \in user_nodes : /\ r.service = args[p].service
                                           /\ r.tos_signed = args[p].flag}) = 2
        /\ \E r \in user_nodes : /\ r.service # args[p].service
                                 /\ r.tos_signed # args[p].flag

\* C17: the node get_best_node selects is not in backoff.
C17_BackoffNotSelected ==
    [][\A p \in Procs :
          (pc[p] # "gbn_update" /\ pc'[p] = "gbn_update")
             => \A k \in NodeKeys :
                   (k[1] = args'[p].service /\ k[2] = node'[p])
                      => nodes[k].backoff = 0
      ]_vars

\* C18: whenever no allocate_node call is between its claim and its insert,
\* every node's current_load is its reported current_load plus the number of
\* assignment rows of the node, and its available is its reported available
\* minus that number.
C18_ClaimsMatchAssignments ==
    (\A p \in Procs : pc[p] # "an_insert")
       => \A k \in NodeKeys :
             LET rows == {r \in user_nodes : r.service = k[1] /\ r.node = k[2]}
             IN  /\ nodes[k].current_load
                       = ReportedNodes[k].current_load + Cardinality(rows)
                 /\ nodes[k].available
                       = ReportedNodes[k].available - Cardinality(rows)

\* C19: no node's available count is below 0.
C19_AvailableNonNegative ==
    \A k \in NodeKeys : nodes[k].available >= 0

\* C20: with one caller at a time, every node keeps current_load <= capacity
\* and available >= 0.
C20_SequentialWithinLimits ==
    \A k \in NodeKeys :
        /\ nodes[k].current_load <= nodes[k].capacity
        /\ nodes[k].available >= 0

\* C20's case: the callers have used up the service: one node is at its
\* capacity, another has no slot available, and an allocate_node has been
\* turned down.
C20_Witness ==
    /\ nodes[<<"s1", "B">>].current_load = nodes[<<"s1", "B">>].capacity
    /\ nodes[<<"s1", "A">>].available = 0
    /\ \E p \in SeqProcs : /\ pc[p] = "done"
                           /\ op[p] = "allocate_node"
                           /\ result[p] = Raised(NoNodeAvailable)

====
